---- MODULE Spec2Model ----
(***************************************************************************)
(* Model of demo-llm-integration: the factory registry (LLMRegistry), the  *)
(* platform factories and adapters, and the ChatService facade with its    *)
(* asynchronous send and stream calls.                                     *)
(*                                                                         *)
(* Strings that the code inspects character by character (platform names,  *)
(* response texts) are sequences of one-character strings; model           *)
(* identifiers, which the code only compares for equality, are strings.    *)
(***************************************************************************)
EXTENDS Integers, Sequences, FiniteSets, TLC

VARIABLES
    factories,      \* LLMRegistry.factories: Map<string, LLMFactory>
    strategy,       \* ChatService.strategy
    config,         \* ChatService.config
    calls,          \* the send / stream calls issued on the service
    regLog,         \* history: register calls since the last clear, oldest first
    lastOk,         \* history: argument of the last configure that returned
    outcome,        \* history: how the most recent configure ended
    overtaken,      \* history: per call, where it stood when a configure replaced its adapter
    probe,          \* adapter under test and the backend response handed to it
    probeOut,       \* what the adapter under test produced from probe
    builder,        \* LLMClientBuilder: its config and defaultOptions fields
    withArgs,       \* history: the last argument given to withPlatform and to withModel,
                    \* and the arguments given to withDefaultOptions, oldest first
    client,         \* outcome of the last build(): the ConfiguredClient or the error, with
                    \* the history of what build() was asked for and the registry it saw
    demo,           \* runDemo: the statement it stands at, what it threw, what it printed last
    held            \* a ConfiguredClient of an earlier build() that the caller still holds

vars == <<factories, strategy, config, calls, regLog, lastOk, outcome, overtaken, probe, probeOut,
         builder, withArgs, client, demo, held>>

(***************************************************************************)
(* Bounds                                                                  *)
(***************************************************************************)
MaxCalls == 1       \* calls that may be pending on the service at once
MaxRegs == 4        \* register calls recorded between two clears
MaxLen == 3         \* length of a backend response text
MaxTokens == 2      \* prompt or completion tokens a backend reports
MaxDefaults == 3    \* withDefaultOptions calls recorded on a builder

(***************************************************************************)
(* Values                                                                  *)
(***************************************************************************)
Undefined == [set |-> FALSE]

Bedrock == <<"b", "e", "d", "r", "o", "c", "k">>
Azure == <<"a", "z", "u", "r", "e">>
Google == <<"g", "o", "o", "g", "l", "e">>
Ollama == <<"o", "l", "l", "a", "m", "a">>
AzureCapital == <<"A", "z", "u", "r", "e">>
OllamaUpper == <<"O", "L", "L", "A", "M", "A">>
Unknown == <<"x">>

\* platform names the callers pass
PlatformNames == {Bedrock, Azure, Google, Ollama, AzureCapital, OllamaUpper, Unknown}

FactoryKinds == {"BedrockFactory", "AzureFactory", "GoogleFactory", "OllamaFactory"}

UpperLetters == <<"A", "B", "C", "D", "E", "F", "G", "H", "I", "J", "K", "L", "M",
                  "N", "O", "P", "Q", "R", "S", "T", "U", "V", "W", "X", "Y", "Z">>
LowerLetters == <<"a", "b", "c", "d", "e", "f", "g", "h", "i", "j", "k", "l", "m",
                  "n", "o", "p", "q", "r", "s", "t", "u", "v", "w", "x", "y", "z">>

\* the lower-case letter of each upper-case letter
UpperToLower ==
    [ch \in {UpperLetters[i] : i \in 1..26} |->
        LowerLetters[CHOOSE i \in 1..26 : UpperLetters[i] = ch]]

LowerChar(ch) == IF ch \in DOMAIN UpperToLower THEN UpperToLower[ch] ELSE ch

\* String.prototype.toLowerCase
toLowerCase(s) == [i \in 1..Len(s) |-> LowerChar(s[i])]

(***************************************************************************)
(* Platform factories                                                      *)
(***************************************************************************)
SUPPORTED_MODELS(f) ==
    CASE f = "BedrockFactory" -> {"anthropic.claude-v2", "mistral.large", "meta.llama2-70b"}
      [] f = "AzureFactory" -> {"gpt-4o-mini", "gpt-35-turbo", "gpt-4o"}
      [] f = "GoogleFactory" -> {"gemini-pro", "gemini-1.0-pro", "text-unicorn-latest"}
      [] f = "OllamaFactory" -> {"llama3", "mistral", "codellama"}

AdapterOf(f) ==
    CASE f = "BedrockFactory" -> "BedrockStrategy"
      [] f = "AzureFactory" -> "AzureOpenAIStrategy"
      [] f = "GoogleFactory" -> "GoogleVertexStrategy"
      [] f = "OllamaFactory" -> "OllamaStrategy"

\* the word each factory puts in front of the rejected identifier
LabelOf(f) ==
    CASE f = "BedrockFactory" -> "Bedrock model"
      [] f = "AzureFactory" -> "Azure deployment"
      [] f = "GoogleFactory" -> "Google model"
      [] f = "OllamaFactory" -> "Ollama model"

\* the platform word each factory's message opens with
LabelPlatform(f) ==
    CASE f = "BedrockFactory" -> <<"B", "e", "d", "r", "o", "c", "k">>
      [] f = "AzureFactory" -> <<"A", "z", "u", "r", "e">>
      [] f = "GoogleFactory" -> <<"G", "o", "o", "g", "l", "e">>
      [] f = "OllamaFactory" -> <<"O", "l", "l", "a", "m", "a">>

\* LLMFactory.listAvailableModels
listAvailableModels(f) == SUPPORTED_MODELS(f)

\* createClient with a fallback to a supported model
createClientFallback(f, model) ==
    [ok |-> TRUE,
     value |-> [set |-> TRUE, adapter |-> AdapterOf(f),
                model |-> IF model \in SUPPORTED_MODELS(f) THEN model
                          ELSE CHOOSE m \in SUPPORTED_MODELS(f) : TRUE]]

\* LLMFactory.createClient: a new adapter bound to model, or a thrown Error
createClient(f, model) ==
    IF model \notin SUPPORTED_MODELS(f)
    THEN [ok |-> FALSE,
          error |-> [type |-> "UnsupportedModel", label |-> LabelOf(f), model |-> model]]
    ELSE [ok |-> TRUE,
          value |-> [set |-> TRUE, adapter |-> AdapterOf(f), model |-> model]]

(***************************************************************************)
(* LLMRegistry                                                             *)
(***************************************************************************)
\* Map.prototype.set
MapSet(m, k, v) == [x \in (DOMAIN m) \cup {k} |-> IF x = k THEN v ELSE m[x]]

EmptyMap == [x \in {} |-> "OllamaFactory"]

\* registerIn with the name stored as given
registerInExact(m, platform, factory) == MapSet(m, platform, factory)

\* LLMRegistry.register, on the map
registerIn(m, platform, factory) == MapSet(m, toLowerCase(platform), factory)

\* getFactoryIn with the name looked up as given
getFactoryInExact(m, platform) ==
    IF platform \notin DOMAIN m
    THEN [ok |-> FALSE, error |-> [type |-> "NotRegistered", platform |-> platform]]
    ELSE [ok |-> TRUE, value |-> m[platform]]

\* LLMRegistry.getFactory, on the map
getFactoryIn(m, platform) ==
    IF toLowerCase(platform) \notin DOMAIN m
    THEN [ok |-> FALSE, error |-> [type |-> "NotRegistered", platform |-> platform]]
    ELSE [ok |-> TRUE, value |-> m[toLowerCase(platform)]]

getFactory(platform) == getFactoryIn(factories, platform)

\* LLMRegistry.listPlatforms (the order of the keys is left out)
listPlatforms == DOMAIN factories

register(platform, factory) ==
    /\ Len(regLog) < MaxRegs
    /\ factories' = registerIn(factories, platform, factory)
    /\ regLog' = Append(regLog, [platform |-> platform, factory |-> factory])
    /\ UNCHANGED <<strategy, config, calls, lastOk, outcome, overtaken, probe, probeOut, builder, withArgs, client, demo, held>>

\* clear that leaves the entries in the map
clearKeepingEntries ==
    /\ factories' = factories
    /\ regLog' = <<>>
    /\ UNCHANGED <<strategy, config, calls, lastOk, outcome, overtaken, probe, probeOut, builder, withArgs, client, demo, held>>

\* clear that also drops the adapter of the service
clearDroppingAdapter ==
    /\ factories' = EmptyMap
    /\ regLog' = <<>>
    /\ strategy' = Undefined
    /\ config' = Undefined
    /\ UNCHANGED <<calls, lastOk, outcome, overtaken, probe, probeOut, builder, withArgs, client, demo, held>>

\* LLMRegistry.clear
clear ==
    /\ factories' = EmptyMap
    /\ regLog' = <<>>
    /\ UNCHANGED <<strategy, config, calls, lastOk, outcome, overtaken, probe, probeOut, builder, withArgs, client, demo, held>>

\* registerDefaultFactories
registerDefaultFactories ==
    /\ Len(regLog) + 4 <= MaxRegs
    /\ factories' = registerIn(registerIn(registerIn(registerIn(factories,
                        Bedrock, "BedrockFactory"),
                        Azure, "AzureFactory"),
                        Google, "GoogleFactory"),
                        Ollama, "OllamaFactory")
    /\ regLog' = regLog \o << [platform |-> Bedrock, factory |-> "BedrockFactory"],
                              [platform |-> Azure, factory |-> "AzureFactory"],
                              [platform |-> Google, factory |-> "GoogleFactory"],
                              [platform |-> Ollama, factory |-> "OllamaFactory"] >>
    /\ UNCHANGED <<strategy, config, calls, lastOk, outcome, overtaken, probe, probeOut, builder, withArgs, client, demo, held>>

(***************************************************************************)
(* Backend clients and adapters                                            *)
(***************************************************************************)
Alphabet == {"a", " ", "."}

RECURSIVE TextsOfLen(_)
TextsOfLen(n) ==
    IF n = 0 THEN {<<>>}
    ELSE {Append(t, ch) : t \in TextsOfLen(n - 1), ch \in Alphabet}

\* the texts a backend may answer with
Texts == UNION {TextsOfLen(n) : n \in 0..MaxLen}

Adapters == {"BedrockStrategy", "AzureOpenAIStrategy", "GoogleVertexStrategy", "OllamaStrategy"}

\* BedrockResponse, AzureResponse, GoogleResponse, OllamaResponse for a request
\* that names model: the clients echo the model; a Google response carries a
\* list of candidates, the others one text
BackendResponses(adapter, model, texts, usages) ==
    IF adapter = "GoogleVertexStrategy"
    THEN {[model |-> model, candidates |-> cs,
           tokenUsage |-> [promptTokens |-> u.prompt, candidatesTokens |-> u.completion]] :
             cs \in {<<>>} \cup {<<t>> : t \in texts}, u \in usages}
    ELSE IF adapter = "AzureOpenAIStrategy"
    THEN {[model |-> model, text |-> t,
           usage |-> [promptTokens |-> u.prompt, completionTokens |-> u.completion]] :
             t \in texts, u \in usages}
    ELSE IF adapter = "OllamaStrategy"
    THEN {[model |-> model, text |-> t,
           promptEvalCount |-> u.prompt, evalCount |-> u.completion] :
             t \in texts, u \in usages}
    ELSE {[model |-> model, text |-> t,
           promptTokens |-> u.prompt, completionTokens |-> u.completion] :
             t \in texts, u \in usages}

\* the token counts the repository's stand-in SDK clients report
MockUsage(adapter) ==
    CASE adapter = "BedrockStrategy" -> [prompt |-> 10, completion |-> 20]
      [] adapter = "AzureOpenAIStrategy" -> [prompt |-> 12, completion |-> 18]
      [] adapter = "GoogleVertexStrategy" -> [prompt |-> 9, completion |-> 16]
      [] adapter = "OllamaStrategy" -> [prompt |-> 8, completion |-> 13]

\* the prompt and completion counts an adapter reads off its backend's response
promptTokensOf(adapter, response) ==
    CASE adapter = "BedrockStrategy" -> response.promptTokens
      [] adapter = "AzureOpenAIStrategy" -> response.usage.promptTokens
      [] adapter = "GoogleVertexStrategy" -> response.tokenUsage.promptTokens
      [] adapter = "OllamaStrategy" -> response.promptEvalCount

completionTokensOf(adapter, response) ==
    CASE adapter = "BedrockStrategy" -> response.completionTokens
      [] adapter = "AzureOpenAIStrategy" -> response.usage.completionTokens
      [] adapter = "GoogleVertexStrategy" -> response.tokenUsage.candidatesTokens
      [] adapter = "OllamaStrategy" -> response.evalCount

\* sendMessage whose total repeats the completion count
sendMessageTotalOfCompletion(adapter, response) ==
    [model |-> response.model,
     content |-> IF adapter = "GoogleVertexStrategy"
                 THEN (IF Len(response.candidates) > 0 THEN response.candidates[1] ELSE <<>>)
                 ELSE response.text,
     usage |-> [promptTokens |-> promptTokensOf(adapter, response),
                completionTokens |-> completionTokensOf(adapter, response),
                totalTokens |-> completionTokensOf(adapter, response)]]

\* sendMessage, from the backend's response on: the unified ChatResponse
sendMessage(adapter, response) ==
    [model |-> response.model,
     content |-> IF adapter = "GoogleVertexStrategy"
                 THEN (IF Len(response.candidates) > 0 THEN response.candidates[1] ELSE <<>>)
                 ELSE response.text,
     usage |-> [promptTokens |-> promptTokensOf(adapter, response),
                completionTokens |-> completionTokensOf(adapter, response),
                totalTokens |-> promptTokensOf(adapter, response)
                                + completionTokensOf(adapter, response)]]

\* String.prototype.split(' '): the pieces between the blanks, empty ones included
RECURSIVE SplitBlank(_, _)
SplitBlank(s, piece) ==
    IF s = <<>> THEN <<piece>>
    ELSE IF Head(s) = " " THEN <<piece>> \o SplitBlank(Tail(s), <<>>)
    ELSE SplitBlank(Tail(s), Append(piece, Head(s)))

IsSpace(ch) == ch = " "
IsTerminator(ch) == ch \in {".", "!", "?"}

RECURSIVE DropSpaces(_)
DropSpaces(s) == IF s # <<>> /\ IsSpace(Head(s)) THEN DropSpaces(Tail(s)) ELSE s

\* String.prototype.split(/(?<=[.!?])\s+/u): a separator is a maximal run of
\* white space that directly follows a terminator
RECURSIVE SplitSentences(_, _)
SplitSentences(s, piece) ==
    IF s = <<>> THEN <<piece>>
    ELSE IF IsSpace(Head(s)) /\ piece # <<>> /\ IsTerminator(piece[Len(piece)])
    THEN <<piece>> \o SplitSentences(DropSpaces(s), <<>>)
    ELSE SplitSentences(Tail(s), Append(piece, Head(s)))

\* [...content]: one element per character
Characters(s) == [i \in 1..Len(s) |-> <<s[i]>>]

\* streamMessage, from the full response on: the chunks it yields, in order
streamMessage(adapter, response) ==
    LET result == sendMessage(adapter, response)
        units == CASE adapter \in {"BedrockStrategy", "AzureOpenAIStrategy"} ->
                          SplitBlank(result.content, <<>>)
                   [] adapter = "GoogleVertexStrategy" -> SplitSentences(result.content, <<>>)
                   [] adapter = "OllamaStrategy" -> Characters(result.content)
        n == Len(units)
    IN  [i \in 1..n |->
            [model |-> result.model,
             contentFragment |->
                 IF adapter \in {"BedrockStrategy", "AzureOpenAIStrategy"}
                 THEN units[i] \o (IF i < n THEN <<" ">> ELSE <<>>)
                 ELSE units[i],
             isLast |-> (i = n)]]

(***************************************************************************)
(* ChatService                                                             *)
(***************************************************************************)
CallIds == 1..(MaxCalls + 1)

\* the slots a host that keeps at most MaxCalls calls pending uses
PendingCalls == 1..MaxCalls

\* a call slot nobody uses
\* runDemo not started
NoDemo == [pc |-> "idle", i |-> 0, error |-> Undefined, reported |-> Undefined]

NoCall ==
    [op |-> "none", pc |-> "free", activeStrategy |-> Undefined,
     response |-> Undefined, chunks |-> <<>>, taken |-> 0, error |-> Undefined,
     issuedStrategy |-> Undefined, issuedCfg |-> Undefined, checkedEver |-> FALSE,
     raised |-> Undefined, options |-> Undefined, via |-> Undefined, invoked |-> 0]

\* a new call takes the first unused slot
FirstFree(c) == calls[c].pc = "free" /\ \A d \in CallIds : d < c => calls[d].pc # "free"

\* ChatService.ensureStrategy
ensureStrategy(s) ==
    IF s = Undefined
    THEN [ok |-> FALSE, error |-> [type |-> "NotConfigured"]]
    ELSE [ok |-> TRUE, value |-> s]

\* resolveStrategy with a factory that accepts every model identifier
resolveStrategyUnchecked(cfg) ==
    LET factory == getFactory(cfg.platform)
    IN  IF factory.ok
        THEN [ok |-> TRUE,
              value |-> [set |-> TRUE, adapter |-> AdapterOf(factory.value), model |-> cfg.model]]
        ELSE factory

\* ChatService.resolveFactory followed by LLMFactory.createClient
resolveStrategy(cfg) ==
    LET factory == getFactory(cfg.platform)
    IN  IF factory.ok THEN createClient(factory.value, cfg.model) ELSE factory

\* strategyAfter with the field reset before the factory is resolved
strategyAfterClearing(made) == IF made.ok THEN made.value ELSE Undefined

\* strategyAfter with the adapter created only once
strategyAfterKeepFirst(made) == IF made.ok /\ strategy = Undefined THEN made.value ELSE strategy

\* ChatService.configure, line 25: the assignment is skipped when resolveFactory
\* or createClient throws
strategyAfter(made) == IF made.ok THEN made.value ELSE strategy

\* configAfter with the assignment moved in front of createClient
configAfterEager(made, cfg) == [set |-> TRUE, platform |-> cfg.platform, model |-> cfg.model]

\* ChatService.configure, line 26
configAfter(made, cfg) ==
    IF made.ok THEN [set |-> TRUE, platform |-> cfg.platform, model |-> cfg.model] ELSE config

\* the body of ChatService.configure, whoever calls it
serviceConfigure(cfg) ==
    LET made == resolveStrategy(cfg)
    IN  /\ strategy' = strategyAfter(made)
        /\ config' = configAfter(made, cfg)
        /\ lastOk' = IF made.ok THEN [set |-> TRUE, platform |-> cfg.platform, model |-> cfg.model]
                     ELSE lastOk
        /\ outcome' = IF made.ok THEN [set |-> TRUE, ok |-> TRUE]
                      ELSE [set |-> TRUE, ok |-> FALSE, type |-> made.error.type]
        /\ overtaken' = [c \in CallIds |->
               IF /\ made.ok
                  /\ overtaken[c] = "no"
                  /\ calls[c].pc \in {"created", "awaiting", "yielding"}
                  /\ made.value # calls[c].issuedStrategy
               THEN calls[c].pc ELSE overtaken[c]]

\* ChatService.configure, called on the service directly
configure(cfg) ==
    /\ serviceConfigure(cfg)
    /\ UNCHANGED <<factories, calls, regLog, probe, probeOut, builder, withArgs, client, demo, held>>

\* getCurrentConfiguration that answers with the registry's spelling of the platform
getCurrentConfigurationLowered ==
    IF config.set THEN [config EXCEPT !.platform = toLowerCase(@)] ELSE config

\* ChatService.getCurrentConfiguration
getCurrentConfiguration == config

\* ChatService.send up to the await on the backend: the check and the request
\* are made before send returns its promise
serviceSend(c, options, via) ==
    LET active == ensureStrategy(strategy)
    IN  /\ FirstFree(c)
        /\ calls' = [calls EXCEPT ![c] =
              [NoCall EXCEPT !.op = "send",
                             !.pc = IF active.ok THEN "awaiting" ELSE "rejected",
                             !.activeStrategy = IF active.ok THEN active.value ELSE Undefined,
                             !.error = IF active.ok THEN Undefined ELSE active.error,
                             !.issuedStrategy = strategy,
                             !.issuedCfg = lastOk,
                             !.checkedEver = lastOk.set,
                             !.options = options,
                             !.via = via,
                             !.invoked = IF active.ok THEN 1 ELSE 0]]

\* ChatService.send called on the service directly, without options
send(c) ==
    /\ serviceSend(c, Undefined, Undefined)
    /\ UNCHANGED <<factories, strategy, config, regLog, lastOk, outcome, overtaken, probe, probeOut, builder, withArgs, client, demo, held>>

\* ChatService.stream: calling an async generator function runs none of its body
serviceStream(c, options, via) ==
    /\ FirstFree(c)
    /\ calls' = [calls EXCEPT ![c] =
          [NoCall EXCEPT !.op = "stream", !.pc = "created",
                         !.issuedStrategy = strategy, !.issuedCfg = lastOk,
                         !.options = options, !.via = via]]

\* ChatService.stream called on the service directly, without options
stream(c) ==
    /\ serviceStream(c, Undefined, Undefined)
    /\ UNCHANGED <<factories, strategy, config, regLog, lastOk, outcome, overtaken, probe, probeOut, builder, withArgs, client, demo, held>>

\* generatorNext with the service's adapter read again at every next(): the
\* chunks not yet taken are produced by the adapter that is active by then
generatorNextRebinding(c) ==
    /\ calls[c].op = "stream"
    /\ \/ /\ calls[c].pc = "created"
          /\ LET active == ensureStrategy(strategy)
             IN  calls' = [calls EXCEPT ![c].pc = IF active.ok THEN "awaiting" ELSE "rejected",
                                        ![c].activeStrategy =
                                            IF active.ok THEN active.value ELSE Undefined,
                                        ![c].error = IF active.ok THEN Undefined ELSE active.error,
                                        ![c].checkedEver = lastOk.set,
                                        ![c].invoked = IF active.ok THEN 1 ELSE 0]
       \/ /\ calls[c].pc = "yielding"
          /\ calls' = IF calls[c].taken < Len(calls[c].chunks)
                      THEN [calls EXCEPT ![c].taken = @ + 1,
                                         ![c].chunks =
                                             [i \in DOMAIN @ |->
                                                 IF i > calls[c].taken
                                                 THEN [@[i] EXCEPT !.model = strategy.model]
                                                 ELSE @[i]]]
                      ELSE [calls EXCEPT ![c].pc = "done"]

\* the consumer's next() on the stream: the first one starts the body (the check,
\* then the adapter's streamMessage up to its await), a later one resumes the loop
generatorNext(c) ==
    /\ calls[c].op = "stream"
    /\ \/ /\ calls[c].pc = "created"
          /\ LET active == ensureStrategy(strategy)
             IN  calls' = [calls EXCEPT ![c].pc = IF active.ok THEN "awaiting" ELSE "rejected",
                                        ![c].activeStrategy =
                                            IF active.ok THEN active.value ELSE Undefined,
                                        ![c].error = IF active.ok THEN Undefined ELSE active.error,
                                        ![c].checkedEver = lastOk.set,
                                        ![c].invoked = IF active.ok THEN 1 ELSE 0]
       \/ /\ calls[c].pc = "yielding"
          /\ calls' = IF calls[c].taken < Len(calls[c].chunks)
                      THEN [calls EXCEPT ![c].taken = @ + 1]
                      ELSE [calls EXCEPT ![c].pc = "done"]

\* a next() of the consumer of ChatService.stream
streamNext(c) ==
    /\ generatorNext(c)
    /\ UNCHANGED <<factories, strategy, config, regLog, lastOk, outcome, overtaken, probe, probeOut, builder, withArgs, client, demo, held>>

\* respondingStrategy with the field read again when the backend answers
respondingStrategyLate(c) == strategy

\* the adapter whose sendMessage / streamMessage call c is suspended in: the
\* local activeStrategy of send (line 30) and of stream (line 35)
respondingStrategy(c) == calls[c].activeStrategy

\* the backend answers the pending request of call c with raw: send resolves
\* with the ChatResponse, stream delivers its first chunk or ends
backendRespond(c, raw) ==
    /\ calls[c].pc = "awaiting"
    /\ LET adapter == respondingStrategy(c).adapter
           chunks == streamMessage(adapter, raw)
       IN  calls' = IF calls[c].op = "send"
                    THEN [calls EXCEPT ![c].pc = "resolved",
                                       ![c].response = sendMessage(adapter, raw)]
                    ELSE [calls EXCEPT ![c].pc = IF chunks = <<>> THEN "done" ELSE "yielding",
                                       ![c].response = sendMessage(adapter, raw),
                                       ![c].chunks = chunks,
                                       ![c].taken = IF chunks = <<>> THEN 0 ELSE 1]
    /\ UNCHANGED <<factories, strategy, config, regLog, lastOk, outcome, overtaken, probe, probeOut, builder, withArgs, client, demo, held>>

\* the adapter rewraps what its SDK client raised
thrownByAdapterWrapped(adapter, err) == [type |-> "AdapterError", cause |-> err]

\* what the adapter's sendMessage (and streamMessage, which awaits it before its
\* first yield) throws when the awaited SDK call rejects with err: no adapter
\* has a try/catch around the await, so the rejection is rethrown as it is
thrownByAdapter(adapter, err) == err

\* backendFail with one more attempt before the error is passed on
backendFailRetrying(c, err) ==
    /\ calls[c].pc = "awaiting"
    /\ calls' = IF calls[c].invoked < 2
                THEN [calls EXCEPT ![c].invoked = @ + 1]
                ELSE [calls EXCEPT ![c].pc = "rejected",
                                   ![c].error = thrownByAdapter(respondingStrategy(c).adapter, err),
                                   ![c].raised = [set |-> TRUE, value |-> err]]
    /\ UNCHANGED <<factories, strategy, config, regLog, lastOk, outcome, overtaken, probe, probeOut, builder, withArgs, client, demo, held>>

\* the backend rejects the pending request of call c with err: send rejects,
\* stream throws out of its first next()
backendFail(c, err) ==
    /\ calls[c].pc = "awaiting"
    /\ calls' = [calls EXCEPT ![c].pc = "rejected",
                              ![c].error = thrownByAdapter(respondingStrategy(c).adapter, err),
                              ![c].raised = [set |-> TRUE, value |-> err]]
    /\ UNCHANGED <<factories, strategy, config, regLog, lastOk, outcome, overtaken, probe, probeOut, builder, withArgs, client, demo, held>>

\* the caller lets go of a settled promise or a finished stream
release(c) ==
    /\ calls[c].pc \in {"resolved", "rejected", "done"}
    /\ calls' = [calls EXCEPT ![c] = NoCall]
    /\ overtaken' = [overtaken EXCEPT ![c] = "no"]
    /\ UNCHANGED <<factories, strategy, config, regLog, lastOk, outcome, probe, probeOut, builder, withArgs, client, demo, held>>

\* a facade that holds every chunk back until the next one arrives
ReceivedOneBehind(c) == SubSeq(calls[c].chunks, 1, calls[c].taken - 1)

\* the chunks the consumer of call c has received so far
Received(c) == SubSeq(calls[c].chunks, 1, calls[c].taken)

(***************************************************************************)
(* LLMClientBuilder and ConfiguredClient                                   *)
(***************************************************************************)
\* ChatOptions are functions from the fields an object carries to their values
EmptyOptions == [f \in {} |-> ""]

\* { ...a, ...b } with b's fields written first
spreadBoth_DefaultsWin(a, b) ==
    LET x == IF a = Undefined THEN EmptyOptions ELSE a
        y == IF b = Undefined THEN EmptyOptions ELSE b
    IN  [f \in DOMAIN x \cup DOMAIN y |-> IF f \in DOMAIN x THEN x[f] ELSE y[f]]

\* { ...a, ...b } that merges the two metadata maps instead of replacing one
spreadBothDeep(a, b) ==
    LET x == IF a = Undefined THEN EmptyOptions ELSE a
        y == IF b = Undefined THEN EmptyOptions ELSE b
    IN  [f \in DOMAIN x \cup DOMAIN y |->
            IF f = "metadata" /\ f \in DOMAIN x /\ f \in DOMAIN y
            THEN [k \in DOMAIN x[f] \cup DOMAIN y[f] |->
                     IF k \in DOMAIN y[f] THEN y[f][k] ELSE x[f][k]]
            ELSE IF f \in DOMAIN y THEN y[f] ELSE x[f]]

\* { ...a, ...b }: the own fields of a, then those of b over them; spreading
\* undefined adds nothing
spreadBoth(a, b) ==
    LET x == IF a = Undefined THEN EmptyOptions ELSE a
        y == IF b = Undefined THEN EmptyOptions ELSE b
    IN  [f \in DOMAIN x \cup DOMAIN y |-> IF f \in DOMAIN y THEN y[f] ELSE x[f]]

\* a builder fresh from its constructor
NewBuilder == [config |-> Undefined, defaultOptions |-> Undefined]

NoArgs == [platform |-> Undefined, model |-> Undefined, options |-> <<>>]

\* LLMClientBuilder.withPlatform
withPlatform(platform) ==
    /\ builder' = [builder EXCEPT !.config =
                      [set |-> TRUE,
                       platform |-> platform,
                       model |-> IF builder.config.set THEN builder.config.model ELSE ""]]
    /\ withArgs' = [withArgs EXCEPT !.platform = [set |-> TRUE, value |-> platform]]
    /\ UNCHANGED <<factories, strategy, config, calls, regLog, lastOk, outcome, overtaken,
                   probe, probeOut, client, demo, held>>

\* withModel that keeps a model it already has
withModelKeepFirst(model) ==
    /\ builder' = [builder EXCEPT !.config =
                      [set |-> TRUE,
                       platform |-> IF builder.config.set THEN builder.config.platform ELSE <<>>,
                       model |-> IF builder.config.set /\ builder.config.model # ""
                                 THEN builder.config.model ELSE model]]
    /\ withArgs' = [withArgs EXCEPT !.model = [set |-> TRUE, value |-> model]]
    /\ UNCHANGED <<factories, strategy, config, calls, regLog, lastOk, outcome, overtaken,
                   probe, probeOut, client, demo, held>>

\* LLMClientBuilder.withModel
withModel(model) ==
    /\ builder' = [builder EXCEPT !.config =
                      [set |-> TRUE,
                       platform |-> IF builder.config.set THEN builder.config.platform ELSE <<>>,
                       model |-> model]]
    /\ withArgs' = [withArgs EXCEPT !.model = [set |-> TRUE, value |-> model]]
    /\ UNCHANGED <<factories, strategy, config, calls, regLog, lastOk, outcome, overtaken,
                   probe, probeOut, client, demo, held>>

\* LLMClientBuilder.withDefaultOptions
withDefaultOptions(options) ==
    /\ Len(withArgs.options) < MaxDefaults
    /\ builder' = [builder EXCEPT !.defaultOptions = spreadBoth(builder.defaultOptions, options)]
    /\ withArgs' = [withArgs EXCEPT !.options = Append(@, options)]
    /\ UNCHANGED <<factories, strategy, config, calls, regLog, lastOk, outcome, overtaken,
                   probe, probeOut, client, demo, held>>

\* build() that looks at the platform only
missingFieldPlatformOnly(cfg) ==
    IF ~cfg.set \/ cfg.platform = <<>> THEN "platform" ELSE "none"

\* the field build() finds missing, platform first
missingField(cfg) ==
    IF ~cfg.set \/ cfg.platform = <<>> THEN "platform"
    ELSE IF cfg.model = "" THEN "model"
    ELSE "none"

\* build that starts the builder afresh when it fails
buildResetting ==
    LET cfg == builder.config
        missing == missingField(cfg)
        made == resolveStrategy([platform |-> cfg.platform, model |-> cfg.model])
    IN  /\ IF missing # "none"
           THEN /\ client' = [set |-> TRUE, ok |-> FALSE, asked |-> withArgs,
                              registry |-> factories,
                              error |-> [type |-> "MissingField", field |-> missing]]
                /\ builder' = NewBuilder
                /\ UNCHANGED <<strategy, config, lastOk, outcome, overtaken>>
           ELSE /\ serviceConfigure([platform |-> cfg.platform, model |-> cfg.model])
                /\ builder' = IF made.ok THEN builder ELSE NewBuilder
                /\ client' = IF made.ok
                             THEN [set |-> TRUE, ok |-> TRUE, asked |-> withArgs,
                                   registry |-> factories,
                                   defaultOptions |-> builder.defaultOptions]
                             ELSE [set |-> TRUE, ok |-> FALSE, asked |-> withArgs,
                                   registry |-> factories, error |-> made.error]
        /\ UNCHANGED <<factories, calls, regLog, probe, probeOut, withArgs, demo, held>>

\* LLMClientBuilder.build: the two checks, then configure on the service, then
\* the client; an error of either step leaves no client
build ==
    LET cfg == builder.config
        missing == missingField(cfg)
        made == resolveStrategy([platform |-> cfg.platform, model |-> cfg.model])
    IN  /\ IF missing # "none"
           THEN /\ client' = [set |-> TRUE, ok |-> FALSE, asked |-> withArgs,
                              registry |-> factories,
                              error |-> [type |-> "MissingField", field |-> missing]]
                /\ UNCHANGED <<strategy, config, lastOk, outcome, overtaken, demo, held>>
           ELSE /\ serviceConfigure([platform |-> cfg.platform, model |-> cfg.model])
                /\ client' = IF made.ok
                             THEN [set |-> TRUE, ok |-> TRUE, asked |-> withArgs,
                                   registry |-> factories,
                                   defaultOptions |-> builder.defaultOptions]
                             ELSE [set |-> TRUE, ok |-> FALSE, asked |-> withArgs,
                                   registry |-> factories, error |-> made.error]
        /\ UNCHANGED <<factories, calls, regLog, probe, probeOut, builder, withArgs, demo, held>>

\* ConfiguredClient.send on the client the last build() returned
clientSend(c, options) ==
    /\ client.set /\ client.ok
    /\ serviceSend(c, spreadBoth(client.defaultOptions, options),
                   [set |-> TRUE, client |-> client, given |-> options])
    /\ UNCHANGED <<factories, strategy, config, regLog, lastOk, outcome, overtaken,
                   probe, probeOut, builder, withArgs, client, demo, held>>

\* ConfiguredClient.stream on the client the last build() returned
clientStream(c, options) ==
    /\ client.set /\ client.ok
    /\ serviceStream(c, spreadBoth(client.defaultOptions, options),
                     [set |-> TRUE, client |-> client, given |-> options])
    /\ UNCHANGED <<factories, strategy, config, regLog, lastOk, outcome, overtaken,
                   probe, probeOut, builder, withArgs, client, demo, held>>

\* const c1 = builder.build(): the caller keeps the client that build returned
keep ==
    /\ client.set /\ client.ok
    /\ held' = client
    /\ UNCHANGED <<factories, strategy, config, calls, regLog, lastOk, outcome, overtaken,
                   probe, probeOut, builder, withArgs, client, demo>>

\* heldSend on a client that owns the adapter it was built with
heldSendBoundAtBuild(c) ==
    /\ held.set
    /\ FirstFree(c)
    /\ calls' = [calls EXCEPT ![c] =
          [NoCall EXCEPT !.op = "send", !.pc = "awaiting",
                         !.activeStrategy =
                             createClient(getFactoryIn(held.registry, held.asked.platform.value).value,
                                          held.asked.model.value).value,
                         !.issuedStrategy = strategy, !.issuedCfg = lastOk,
                         !.checkedEver = lastOk.set,
                         !.options = spreadBoth(held.defaultOptions, Undefined),
                         !.via = [set |-> TRUE, client |-> held, given |-> Undefined],
                         !.invoked = 1]]
    /\ UNCHANGED <<factories, strategy, config, regLog, lastOk, outcome, overtaken,
                   probe, probeOut, builder, withArgs, client, demo, held>>

\* ConfiguredClient.send on the client the caller kept, without options
heldSend(c) ==
    /\ held.set
    /\ serviceSend(c, spreadBoth(held.defaultOptions, Undefined),
                   [set |-> TRUE, client |-> held, given |-> Undefined])
    /\ UNCHANGED <<factories, strategy, config, regLog, lastOk, outcome, overtaken,
                   probe, probeOut, builder, withArgs, client, demo, held>>

\* ConfiguredClient.stream on the client the caller kept, without options
heldStream(c) ==
    /\ held.set
    /\ serviceStream(c, spreadBoth(held.defaultOptions, Undefined),
                     [set |-> TRUE, client |-> held, given |-> Undefined])
    /\ UNCHANGED <<factories, strategy, config, regLog, lastOk, outcome, overtaken,
                   probe, probeOut, builder, withArgs, client, demo, held>>

(***************************************************************************)
(* Specifications                                                          *)
(***************************************************************************)
NoProbe == [set |-> FALSE]

Init ==
    /\ factories = EmptyMap
    /\ strategy = Undefined
    /\ config = Undefined
    /\ calls = [c \in CallIds |-> NoCall]
    /\ regLog = <<>>
    /\ lastOk = Undefined
    /\ outcome = Undefined
    /\ overtaken = [c \in CallIds |-> "no"]
    /\ builder = NewBuilder
    /\ withArgs = NoArgs
    /\ client = Undefined
    /\ held = Undefined
    /\ demo = NoDemo
    /\ probe = NoProbe
    /\ probeOut = NoProbe

\* the texts the repository's clients answer with are never empty
ServiceTexts == {<<"a">>, <<".", " ", "a">>}

ServiceConfigs ==
    {[platform |-> Azure, model |-> "gpt-4o"],
     [platform |-> AzureCapital, model |-> "gpt-4o"],
     [platform |-> Ollama, model |-> "llama3"],
     [platform |-> Ollama, model |-> "llama3.2"],
     [platform |-> Unknown, model |-> "llama3"]}

Respond(texts) ==
    \E c \in CallIds :
        /\ calls[c].pc = "awaiting"
        /\ \E raw \in BackendResponses(respondingStrategy(c).adapter,
                                       respondingStrategy(c).model, texts,
                                       {MockUsage(respondingStrategy(c).adapter)}) :
               backendRespond(c, raw)

\* the service with the default registry
Next ==
    \/ registerDefaultFactories
    \/ clear
    \/ \E cfg \in ServiceConfigs : configure(cfg)
    \/ \E c \in PendingCalls : send(c)
    \/ \E c \in PendingCalls : stream(c)
    \/ \E c \in CallIds : streamNext(c)
    \/ Respond(ServiceTexts)
    \/ \E c \in CallIds : release(c)

Spec == Init /\ [][Next]_vars

\* the factory registerDefaultFactories puts under each name
DefaultFactory(p) ==
    CASE p = Bedrock -> "BedrockFactory"
      [] p = Azure -> "AzureFactory"
      [] p = Google -> "GoogleFactory"
      [] p = Ollama -> "OllamaFactory"

\* every default platform with every model of its allowlist and one outside it,
\* a model of another platform's allowlist, and a platform nobody registers
SwitchConfigs ==
    UNION {{[platform |-> p, model |-> m] :
                m \in SUPPORTED_MODELS(DefaultFactory(p)) \cup {"unknown"}} :
           p \in {Bedrock, Azure, Google, Ollama}}
    \cup {[platform |-> Azure, model |-> "llama3"], [platform |-> Unknown, model |-> "llama3"]}

\* runtime switching over every platform and model, observed through send
NextSwitch ==
    \/ registerDefaultFactories
    \/ clear
    \/ \E cfg \in SwitchConfigs : configure(cfg)
    \/ \E c \in PendingCalls : send(c)
    \/ Respond({<<"a">>})
    \/ \E c \in CallIds : release(c)

SpecSwitch == Init /\ [][NextSwitch]_vars

\* errors a backend call rejects with
BackendErrors ==
    {[type |-> "BackendFailure", message |-> "timeout"],
     [type |-> "BackendFailure", message |-> "throttled"]}

BackendConfigs ==
    {[platform |-> Bedrock, model |-> "mistral.large"],
     [platform |-> Google, model |-> "gemini-pro"],
     [platform |-> Ollama, model |-> "llama3"]}

\* the service in front of backends that answer or fail
NextBackend ==
    \/ registerDefaultFactories
    \/ \E cfg \in BackendConfigs : configure(cfg)
    \/ \E c \in PendingCalls : send(c)
    \/ \E c \in PendingCalls : stream(c)
    \/ \E c \in CallIds : streamNext(c)
    \/ Respond({<<"a", " ", "a">>})
    \/ \E c \in CallIds : \E err \in BackendErrors : backendFail(c, err)
    \/ \E c \in CallIds : release(c)

SpecBackend == Init /\ [][NextBackend]_vars

\* arguments given to withPlatform and to withModel, the empty string among them
BuilderPlatforms == {<<>>, Ollama, AzureCapital, Unknown}
BuilderModels == {"", "llama3", "gpt-4o"}

\* the builder in front of the service with the default registry
NextBuilder ==
    \/ registerDefaultFactories
    \/ \E p \in BuilderPlatforms : withPlatform(p)
    \/ \E m \in BuilderModels : withModel(m)
    \/ build
    \/ \E c \in PendingCalls : clientSend(c, Undefined)
    \/ Respond({<<"a">>})
    \/ \E c \in CallIds : release(c)

SpecBuilder == Init /\ [][NextBuilder]_vars

\* ChatOptions objects: two with one field, and one with two fields of which one
\* is present and undefined
ClientOptions ==
    {[temperature |-> "0.5"],
     [maxTokens |-> "64"],
     [temperature |-> "undefined", systemPrompt |-> "s"]}

\* the defaults the client is built with
ClientDefaults == {[temperature |-> "0.5", maxTokens |-> "64"]}

\* a client built for one platform and model, with defaults, used with options
NextClient ==
    \/ registerDefaultFactories
    \/ withPlatform(Ollama)
    \/ withModel("llama3")
    \/ \E o \in ClientDefaults : withDefaultOptions(o)
    \/ build
    \/ \E c \in PendingCalls : \E o \in ClientOptions \cup {Undefined} : clientSend(c, o)
    \/ \E c \in PendingCalls : \E o \in ClientOptions \cup {Undefined} : clientStream(c, o)
    \/ \E c \in CallIds : streamNext(c)
    \/ Respond({<<"a">>})
    \/ \E c \in CallIds : release(c)

SpecClient == Init /\ [][NextClient]_vars

\* a factory registered under its usual name and under a name of the caller's
NamingNames == {Azure, Unknown}
NamingFactories == {"AzureFactory", "OllamaFactory"}
NamingConfigs == {[platform |-> p, model |-> m] : p \in NamingNames, m \in {"gpt-4o", "unknown"}}

\* the service over a registry filled by the caller
NextNaming ==
    \/ \E p \in NamingNames, f \in NamingFactories : register(p, f)
    \/ clear
    \/ \E cfg \in NamingConfigs : configure(cfg)

SpecNaming == Init /\ [][NextNaming]_vars

ParallelConfigs ==
    {[platform |-> Azure, model |-> "gpt-4o"], [platform |-> Ollama, model |-> "llama3"]}

\* two answers that every adapter streams as one chunk
ParallelTexts == {<<"a">>, <<".">>}

\* a host that issues one call more than PendingCalls holds and keeps them all,
\* over backends that answer in any order or fail
NextParallel ==
    \/ registerDefaultFactories
    \/ \E cfg \in ParallelConfigs : configure(cfg)
    \/ \E c \in CallIds : send(c)
    \/ \E c \in CallIds : stream(c)
    \/ \E c \in CallIds : streamNext(c)
    \/ Respond(ParallelTexts)
    \/ \E c \in CallIds : backendFail(c, [type |-> "BackendFailure", message |-> "timeout"])

SpecParallel == Init /\ [][NextParallel]_vars

\* arguments of withDefaultOptions: overlapping fields, two metadata maps with
\* different keys, and the empty object
DefaultsInputs ==
    {[temperature |-> "0.5"],
     [temperature |-> "0.9", maxTokens |-> "64"],
     [metadata |-> [a |-> "1"]],
     [metadata |-> [b |-> "2"], systemPrompt |-> "s"],
     EmptyOptions}

\* a builder that is given default options and builds
NextDefaults ==
    \/ registerDefaultFactories
    \/ withPlatform(Ollama)
    \/ withModel("llama3")
    \/ \E o \in DefaultsInputs : withDefaultOptions(o)
    \/ build

SpecDefaults == Init /\ [][NextDefaults]_vars

RegistryNames == {Azure, AzureCapital, OllamaUpper}

\* the registry on its own
NextRegistry ==
    \/ \E p \in RegistryNames, f \in FactoryKinds : register(p, f)
    \/ registerDefaultFactories
    \/ clear

SpecRegistry == Init /\ [][NextRegistry]_vars

SharedPlatforms == {Azure, Ollama}
SharedModels == {"gpt-4o", "llama3"}

\* one builder whose clients are kept and used after later builds
NextShared ==
    \/ registerDefaultFactories
    \/ \E platform \in SharedPlatforms : withPlatform(platform)
    \/ \E model \in SharedModels : withModel(model)
    \/ build
    \/ keep
    \/ \E c \in PendingCalls : heldSend(c)
    \/ \E c \in PendingCalls : heldStream(c)
    \/ \E c \in CallIds : streamNext(c)
    \/ Respond({<<"a">>})
    \/ \E c \in CallIds : release(c)

SpecShared == Init /\ [][NextShared]_vars

RewireFactories == {"AzureFactory", "OllamaFactory"}
RewireConfigs == {[platform |-> Azure, model |-> m] : m \in {"gpt-4o", "llama3"}}

\* the registry rewired under a service in use: one platform name, given to
\* either factory or cleared
NextRewire ==
    \/ \E f \in RewireFactories : register(Azure, f)
    \/ clear
    \/ \E cfg \in RewireConfigs : configure(cfg)
    \/ \E c \in PendingCalls : send(c)
    \/ \E c \in PendingCalls : stream(c)
    \/ \E c \in CallIds : streamNext(c)
    \/ Respond({<<"a">>})

SpecRewire == Init /\ [][NextRewire]_vars

AllowlistConfigs ==
    {[platform |-> p, model |-> m] : p \in {Azure, AzureCapital}, m \in {"gpt-4o", "llama3"}}

\* configure, in either spelling of the name, over a registry that is rewired
NextAllowlist ==
    \/ \E f \in RewireFactories : register(Azure, f)
    \/ clear
    \/ \E cfg \in AllowlistConfigs : configure(cfg)

SpecAllowlist == Init /\ [][NextAllowlist]_vars

RebuildPlatforms == {<<>>, Ollama, Azure, Unknown}
RebuildModels == {"", "llama3", "gpt-4o"}

\* one builder filled, built, corrected and built again
NextRebuild ==
    \/ registerDefaultFactories
    \/ \E platform \in RebuildPlatforms : withPlatform(platform)
    \/ \E model \in RebuildModels : withModel(model)
    \/ \E o \in ClientDefaults : withDefaultOptions(o)
    \/ build

SpecRebuild == Init /\ [][NextRebuild]_vars

(***************************************************************************)
(* The adapters as functions of the backend's response                     *)
(***************************************************************************)
FactoryOfAdapter(a) == CHOOSE f \in FactoryKinds : AdapterOf(f) = a

\* the non-negative token counts a backend reports
Usages == {[prompt |-> p, completion |-> k] : p \in 0..MaxTokens, k \in 0..MaxTokens}

InitAdapters ==
    /\ factories = EmptyMap
    /\ strategy = Undefined
    /\ config = Undefined
    /\ calls = [c \in CallIds |-> NoCall]
    /\ regLog = <<>>
    /\ lastOk = Undefined
    /\ outcome = Undefined
    /\ overtaken = [c \in CallIds |-> "no"]
    /\ builder = NewBuilder
    /\ withArgs = NoArgs
    /\ client = Undefined
    /\ held = Undefined
    /\ demo = NoDemo
    /\ \E a \in Adapters :
       \E m \in SUPPORTED_MODELS(FactoryOfAdapter(a)) :
       \E t \in Texts, u \in Usages :
       \E raw \in BackendResponses(a, m, {t}, {u}) :
           probe = [set |-> TRUE, adapter |-> a, raw |-> raw, reported |-> u]
    /\ probeOut = NoProbe

\* the adapter under test answers a sendMessage call
adapterSend ==
    /\ probe.set
    /\ probeOut' = [set |-> TRUE, op |-> "send",
                    response |-> sendMessage(probe.adapter, probe.raw), chunks |-> <<>>]
    /\ UNCHANGED <<factories, strategy, config, calls, regLog, lastOk, outcome, overtaken, probe, builder, withArgs, client, demo, held>>

\* the adapter under test answers a streamMessage call that is read to its end
adapterStream ==
    /\ probe.set
    /\ probeOut' = [set |-> TRUE, op |-> "stream",
                    response |-> sendMessage(probe.adapter, probe.raw),
                    chunks |-> streamMessage(probe.adapter, probe.raw)]
    /\ UNCHANGED <<factories, strategy, config, calls, regLog, lastOk, outcome, overtaken, probe, builder, withArgs, client, demo, held>>

NextAdapters == adapterSend \/ adapterStream

SpecAdapters == InitAdapters /\ [][NextAdapters]_vars

(***************************************************************************)
(* The factories as functions of the requested model identifier            *)
(***************************************************************************)
\* identifiers asked for: every allowlisted one, and some that differ from an
\* allowlisted one in case, by a prefix or by a suffix
ModelIdInputs ==
    UNION {SUPPORTED_MODELS(f) : f \in FactoryKinds}
    \cup {"llama3.2", "unknown", "", "GPT-4o", "Llama3", "gpt-4", "gemini", "mistral.large "}

InitFactories ==
    /\ factories = EmptyMap
    /\ strategy = Undefined
    /\ config = Undefined
    /\ calls = [c \in CallIds |-> NoCall]
    /\ regLog = <<>>
    /\ lastOk = Undefined
    /\ outcome = Undefined
    /\ overtaken = [c \in CallIds |-> "no"]
    /\ builder = NewBuilder
    /\ withArgs = NoArgs
    /\ client = Undefined
    /\ held = Undefined
    /\ demo = NoDemo
    /\ \E f \in FactoryKinds, m \in ModelIdInputs :
           probe = [set |-> TRUE, factory |-> f, modelId |-> m]
    /\ probeOut = NoProbe

\* the factory under test answers createClient(modelId)
factoryCreate ==
    /\ probe.set
    /\ probeOut' = [set |-> TRUE, op |-> "createClient",
                    result |-> createClient(probe.factory, probe.modelId)]
    /\ UNCHANGED <<factories, strategy, config, calls, regLog, lastOk, outcome, overtaken, probe, builder, withArgs, client, demo, held>>

\* the factory under test answers listAvailableModels()
factoryList ==
    /\ probe.set
    /\ probeOut' = [set |-> TRUE, op |-> "listAvailableModels",
                    result |-> listAvailableModels(probe.factory)]
    /\ UNCHANGED <<factories, strategy, config, calls, regLog, lastOk, outcome, overtaken, probe, builder, withArgs, client, demo, held>>

NextFactories == factoryCreate \/ factoryList

SpecFactories == InitFactories /\ [][NextFactories]_vars

(***************************************************************************)
(* The adapters as builders of the backend's request                       *)
(***************************************************************************)
\* options.f: the value of the field, or undefined when the object lacks it
Get(options, f) == IF f \in DOMAIN options THEN options[f] ELSE "undefined"

\* a value JavaScript takes as true in a condition
Truthy(v) == v \notin {"undefined", ""}

\* the object literal each adapter's sendMessage hands to its SDK client
buildRequest(adapter, model, prompt, options) ==
    CASE adapter = "BedrockStrategy" ->
           [modelId |-> model, prompt |-> prompt,
            temperature |-> Get(options, "temperature"),
            maxTokens |-> Get(options, "maxTokens")]
      [] adapter = "AzureOpenAIStrategy" ->
           [deploymentId |-> model,
            temperature |-> Get(options, "temperature"),
            maxTokens |-> Get(options, "maxTokens"),
            messages |-> (IF Truthy(Get(options, "systemPrompt"))
                          THEN <<[role |-> "system", content |-> options["systemPrompt"]]>>
                          ELSE <<>>)
                         \o <<[role |-> "user", content |-> prompt]>>]
      [] adapter = "GoogleVertexStrategy" ->
           [model |-> model, input |-> prompt,
            safetySettings |-> IF "metadata" \in DOMAIN options
                               THEN [set |-> TRUE, value |-> options["metadata"]]
                               ELSE Undefined]
      [] adapter = "OllamaStrategy" ->
           [model |-> model, prompt |-> prompt,
            options |-> spreadBoth([temperature |-> Get(options, "temperature"),
                                    num_predict |-> Get(options, "maxTokens")],
                                   IF "metadata" \in DOMAIN options
                                   THEN options["metadata"] ELSE Undefined)]

\* the value a caller gives each option field; metadata is a map of its own
OptionValue(f) ==
    CASE f = "temperature" -> "0.5"
      [] f = "maxTokens" -> "64"
      [] f = "systemPrompt" -> "s"
      [] f = "metadata" -> [tag |-> "t"]

RequestFields == {"temperature", "maxTokens", "systemPrompt", "metadata"}

\* every choice of the four fields, each present or absent
RequestOptions == {[f \in S |-> OptionValue(f)] : S \in SUBSET RequestFields}

InitRequests ==
    /\ factories = EmptyMap
    /\ strategy = Undefined
    /\ config = Undefined
    /\ calls = [c \in CallIds |-> NoCall]
    /\ regLog = <<>>
    /\ lastOk = Undefined
    /\ outcome = Undefined
    /\ overtaken = [c \in CallIds |-> "no"]
    /\ builder = NewBuilder
    /\ withArgs = NoArgs
    /\ client = Undefined
    /\ held = Undefined
    /\ demo = NoDemo
    /\ \E a \in Adapters :
       \E m \in SUPPORTED_MODELS(FactoryOfAdapter(a)) :
       \E o \in RequestOptions :
           probe = [set |-> TRUE, adapter |-> a, model |-> m, prompt |-> "p", options |-> o]
    /\ probeOut = NoProbe

\* the adapter under test builds the request of a sendMessage call
adapterRequest ==
    /\ probe.set
    /\ probeOut' = [set |-> TRUE, op |-> "request",
                    request |-> buildRequest(probe.adapter, probe.model, probe.prompt,
                                             probe.options)]
    /\ UNCHANGED <<factories, strategy, config, calls, regLog, lastOk, outcome, overtaken,
                   probe, builder, withArgs, client, demo, held>>

NextRequests == adapterRequest

SpecRequests == InitRequests /\ [][NextRequests]_vars

(***************************************************************************)
(* The stand-in SDK clients: every answer repeats the prompt of its request *)
(***************************************************************************)
\* the words each client puts in front of the prompt
MockPrefix(adapter) ==
    CASE adapter = "BedrockStrategy" ->
           <<"B", "e", "d", "r", "o", "c", "k", " ",
             "r", "e", "s", "p", "o", "n", "s", "e", " ", "t", "o", ":", " ">>
      [] adapter = "AzureOpenAIStrategy" ->
           <<"A", "z", "u", "r", "e", " ", "O", "p", "e", "n", "A", "I", " ",
             "r", "e", "s", "p", "o", "n", "s", "e", " ", "t", "o", ":", " ">>
      [] adapter = "GoogleVertexStrategy" ->
           <<"V", "e", "r", "t", "e", "x", " ", "A", "I", " ",
             "r", "e", "s", "p", "o", "n", "s", "e", " ", "t", "o", ":", " ">>
      [] adapter = "OllamaStrategy" ->
           <<"O", "l", "l", "a", "m", "a", " ",
             "r", "e", "s", "p", "o", "n", "s", "e", " ", "t", "o", ":", " ">>

\* the prompt a client finds in its request
RequestPrompt(adapter, req) ==
    CASE adapter = "AzureOpenAIStrategy" ->
           IF \E i \in 1..Len(req.messages) : req.messages[i].role = "user"
           THEN req.messages[CHOOSE i \in 1..Len(req.messages) :
                                 /\ req.messages[i].role = "user"
                                 /\ \A j \in 1..(i - 1) : req.messages[j].role # "user"].content
           ELSE <<>>
      [] adapter = "GoogleVertexStrategy" -> req.input
      [] OTHER -> req.prompt

\* the model a client finds in its request
RequestModel(adapter, req) ==
    CASE adapter = "BedrockStrategy" -> req.modelId
      [] adapter = "AzureOpenAIStrategy" -> req.deploymentId
      [] OTHER -> req.model

\* invokeModel, createChatCompletion, generateContent, generate
MockClient(adapter, req) ==
    CHOOSE r \in BackendResponses(adapter, RequestModel(adapter, req),
                                  {MockPrefix(adapter) \o RequestPrompt(adapter, req)},
                                  {MockUsage(adapter)}) :
        adapter = "GoogleVertexStrategy" => r.candidates # <<>>

\* the prompt of the host's c-th call: no two calls ask the same
PromptOf(c) == [i \in 1..c |-> "a"]

\* the options the adapter of call c works with: its parameter defaults to {}
OptionsOf(c) == IF calls[c].options = Undefined THEN EmptyOptions ELSE calls[c].options

\* mockRespond with an adapter that keeps the prompt of the request it was
\* handed last in a field of its own
mockRespondLastPrompt(c) ==
    /\ calls[c].pc = "awaiting"
    /\ LET last == CHOOSE d \in CallIds :
                       /\ calls[d].invoked = 1
                       /\ \A e \in CallIds : calls[e].invoked = 1 => e <= d
       IN  backendRespond(c, MockClient(respondingStrategy(c).adapter,
                                        buildRequest(respondingStrategy(c).adapter,
                                                     respondingStrategy(c).model,
                                                     PromptOf(last), OptionsOf(c))))

\* the client of call c's adapter answers the request the adapter made for c
mockRespond(c) ==
    /\ calls[c].pc = "awaiting"
    /\ backendRespond(c, MockClient(respondingStrategy(c).adapter,
                                    buildRequest(respondingStrategy(c).adapter,
                                                 respondingStrategy(c).model,
                                                 PromptOf(c), OptionsOf(c))))

EchoConfigs ==
    {[platform |-> Azure, model |-> "gpt-4o"], [platform |-> Google, model |-> "gemini-pro"]}

\* a host that keeps several calls in flight over the repository's clients,
\* which answer in any order
NextEcho ==
    \/ registerDefaultFactories
    \/ \E cfg \in EchoConfigs : configure(cfg)
    \/ \E c \in CallIds : send(c)
    \/ \E c \in CallIds : stream(c)
    \/ \E c \in CallIds : streamNext(c)
    \/ \E c \in CallIds : mockRespond(c)

SpecEcho == Init /\ [][NextEcho]_vars

(***************************************************************************)
(* Properties                                                              *)
(***************************************************************************)
NotConfigured == [type |-> "NotConfigured"]

FailedNotConfigured(c) == calls[c].pc = "rejected" /\ calls[c].error = NotConfigured

\* the precondition check of call c has run
Checked(c) == calls[c].pc \notin {"free", "created"}

\* C1: a send or stream whose precondition is checked while no configure has
\* ever succeeded on the service fails with NotConfigured, and a send or
\* stream issued after a configure has succeeded never fails with
\* NotConfigured, whatever configure calls follow.
C1_NotConfiguredExactlyBeforeFirstConfigure ==
    \A c \in CallIds :
        /\ (Checked(c) /\ ~calls[c].checkedEver) => FailedNotConfigured(c)
        /\ (calls[c].op # "none" /\ calls[c].issuedCfg.set) => ~FailedNotConfigured(c)

C1_Witness ==
    \E c \in CallIds :
        /\ calls[c].op = "stream"
        /\ FailedNotConfigured(c)
        /\ lastOk = Undefined
        /\ outcome.set /\ ~outcome.ok

\* C2: a send that resolves returns a response whose model is the model of
\* the most recent configure that had succeeded when send was called.
C2_SendAnswersWithConfiguredModel ==
    \A c \in CallIds :
        (calls[c].op = "send" /\ calls[c].pc = "resolved") =>
            /\ calls[c].issuedCfg.set
            /\ calls[c].response.model = calls[c].issuedCfg.model

C2_Witness ==
    \E c \in CallIds :
        /\ calls[c].op = "send" /\ calls[c].pc = "resolved"
        /\ calls[c].issuedCfg.platform = Google
        /\ calls[c].response.model = "text-unicorn-latest"

\* C3: the chunks of a stream come from the adapter that was active when
\* stream() was called, also when a configure succeeds before the first chunk
\* is consumed.
C3_StreamBoundAtCall ==
    \A c \in CallIds :
        (calls[c].op = "stream" /\ calls[c].issuedStrategy.set /\ Checked(c)) =>
            /\ calls[c].activeStrategy = calls[c].issuedStrategy
            /\ \A i \in 1..calls[c].taken :
                   calls[c].chunks[i].model = calls[c].issuedStrategy.model

\* C4: a send that is in flight when a configure succeeds is neither cancelled
\* nor redirected: it stays bound to the adapter that was active when send was
\* called and resolves with that adapter's response.
C4_SendKeepsItsAdapter ==
    \A c \in CallIds :
        (calls[c].op = "send" /\ calls[c].issuedStrategy.set) =>
            /\ calls[c].pc \in {"awaiting", "resolved"}
            /\ calls[c].activeStrategy = calls[c].issuedStrategy
            /\ calls[c].pc = "resolved" =>
                   calls[c].response.model = calls[c].issuedStrategy.model

C4_Witness ==
    \E c \in CallIds :
        /\ calls[c].op = "send" /\ calls[c].pc = "resolved"
        /\ overtaken[c] = "awaiting"
        /\ strategy.model # calls[c].response.model

\* C5: a stream() call made on a never-configured service fails with
\* NotConfigured, also when a configure succeeds before its first chunk is
\* requested.
C5_StreamFailsAtCall ==
    \A c \in CallIds :
        (calls[c].op = "stream" /\ ~calls[c].issuedStrategy.set /\ Checked(c)) =>
            FailedNotConfigured(c)

\* C6: the chunk sequence of streamMessage has exactly one chunk with isLast,
\* and it is the last one, for every adapter and every text of the backend.
C6_ExactlyOneLastChunk ==
    (probeOut.set /\ probeOut.op = "stream") =>
        LET n == Len(probeOut.chunks)
        IN  /\ n >= 1
            /\ \A i \in 1..n : probeOut.chunks[i].isLast <=> (i = n)

RECURSIVE ConcatFragments(_)
ConcatFragments(chunks) ==
    IF chunks = <<>> THEN <<>>
    ELSE Head(chunks).contentFragment \o ConcatFragments(Tail(chunks))

\* C7: the contentFragment values of a stream, concatenated in order, are the
\* content sendMessage returns for the same backend response.
C7_FragmentsRebuildContent ==
    (probeOut.set /\ probeOut.op = "stream") =>
        ConcatFragments(probeOut.chunks) = sendMessage(probe.adapter, probe.raw).content

\* C8: every step that changes the active adapter or the active config is a
\* configure that resolved, and it sets both to what that configure resolved;
\* the two are always set together and name the same model.
C8_ConfigureAtomic ==
    [][/\ (strategy' # strategy \/ config' # config) =>
              \E cfg \in ServiceConfigs :
                  /\ resolveStrategy(cfg).ok
                  /\ strategy' = resolveStrategy(cfg).value
                  /\ config' = [set |-> TRUE, platform |-> cfg.platform, model |-> cfg.model]
       /\ strategy'.set = config'.set
       /\ strategy'.set => strategy'.model = config'.model]_vars

C8_Witness ==
    /\ outcome.set /\ ~outcome.ok /\ outcome.type = "UnsupportedModel"
    /\ strategy.set /\ config.set
    /\ strategy.adapter = "AzureOpenAIStrategy" /\ config.platform = AzureCapital

EqualIgnoringCase(a, b) ==
    /\ Len(a) = Len(b)
    /\ \A i \in 1..Len(a) : LowerChar(a[i]) = LowerChar(b[i])

\* the register calls since the last clear whose name equals n ignoring case
RegistrationsOf(n) == {i \in 1..Len(regLog) : EqualIgnoringCase(regLog[i].platform, n)}

\* C9: getFactory(name) fails, with NotRegistered carrying name, exactly when
\* no register since the last clear had a name equal to it ignoring case.
C9_NotRegisteredExactlyWhenAbsent ==
    \A n \in PlatformNames :
        /\ getFactory(n).ok <=> RegistrationsOf(n) # {}
        /\ ~getFactory(n).ok => getFactory(n).error = [type |-> "NotRegistered", platform |-> n]

C9_Witness ==
    /\ Len(regLog) = 1
    /\ regLog[1].platform = AzureCapital
    /\ getFactory(Azure).ok
    /\ ~getFactory(Ollama).ok

Latest(S) == CHOOSE i \in S : \A j \in S : j <= i

\* C10: the registry holds at most one factory per name ignoring case,
\* getFactory(name) returns the factory of the most recent register whose name
\* equals it ignoring case, and a register that overwrites an entry can be made.
C10_LastRegistrationWins ==
    /\ \A i \in 1..Len(regLog) :
           Len(regLog) < MaxRegs =>
               \A f \in FactoryKinds : ENABLED register(regLog[i].platform, f)
    /\ \A k1, k2 \in DOMAIN factories : EqualIgnoringCase(k1, k2) => k1 = k2
    /\ \A n \in PlatformNames :
           RegistrationsOf(n) # {} =>
               /\ getFactory(n).ok
               /\ getFactory(n).value = regLog[Latest(RegistrationsOf(n))].factory

C10_Witness ==
    /\ Len(regLog) = 2
    /\ regLog[1] = [platform |-> Azure, factory |-> "AzureFactory"]
    /\ regLog[2] = [platform |-> AzureCapital, factory |-> "OllamaFactory"]
    /\ getFactory(Azure).value = "OllamaFactory"
    /\ Cardinality(DOMAIN factories) = 1

\* C11: createClient(modelId) returns an adapter of the factory's platform bound
\* to modelId exactly when modelId is an element of listAvailableModels();
\* otherwise it fails with UnsupportedModel and returns no adapter.
C11_CreateClientExactlyForAllowlist ==
    (probeOut.set /\ probeOut.op = "createClient") =>
        LET r == probeOut.result
        IN  /\ r.ok <=> probe.modelId \in listAvailableModels(probe.factory)
            /\ r.ok => r.value = [set |-> TRUE, adapter |-> AdapterOf(probe.factory),
                                  model |-> probe.modelId]
            /\ ~r.ok => /\ r.error.type = "UnsupportedModel"
                        /\ "value" \notin DOMAIN r

C11_Witness ==
    /\ probeOut.set /\ probeOut.op = "createClient"
    /\ probe.factory = "AzureFactory" /\ probe.modelId = "GPT-4o"
    /\ ~probeOut.result.ok

\* C12: every ChatResponse an adapter's sendMessage produces carries the
\* backend's reported prompt and completion counts, and a totalTokens that is
\* their sum.
C12_TotalIsPromptPlusCompletion ==
    (probeOut.set /\ probeOut.op = "send") =>
        LET usage == probeOut.response.usage
        IN  /\ usage.promptTokens = probe.reported.prompt
            /\ usage.completionTokens = probe.reported.completion
            /\ usage.totalTokens = usage.promptTokens + usage.completionTokens

C12_Witness ==
    /\ probeOut.set /\ probeOut.op = "send"
    /\ probe.adapter = "GoogleVertexStrategy"
    /\ probe.reported = [prompt |-> 1, completion |-> MaxTokens]
    /\ probeOut.response.usage.totalTokens = 1 + MaxTokens

\* C13: a call whose backend request failed is rejected with the very error the
\* backend raised, and nothing of it was delivered: a stream has emitted no
\* chunk and emits none later, a send has no response.
C13_BackendFailureBeforeAnyChunk ==
    \A c \in CallIds :
        calls[c].raised.set =>
            /\ calls[c].pc = "rejected"
            /\ calls[c].error = calls[c].raised.value
            /\ Received(c) = <<>>
            /\ calls[c].chunks = <<>>
            /\ calls[c].response = Undefined
            /\ ~ENABLED streamNext(c)

C13_Witness ==
    \E c \in CallIds :
        /\ calls[c].op = "stream"
        /\ calls[c].raised.set
        /\ calls[c].error = [type |-> "BackendFailure", message |-> "timeout"]

\* the value the builder has accumulated for a field is absent: never given, or
\* last given as the empty string
AbsentPlatform(args) == ~args.platform.set \/ args.platform.value = <<>>
AbsentModel(args) == ~args.model.set \/ args.model.value = ""

\* C14: build() fails with MissingField whenever the last platform or the last
\* model given to the builder is unset or the empty string, whatever the order
\* and repetition of withPlatform / withModel, and the error names a field that
\* is absent.
C14_BuildRejectsMissingField ==
    (client.set /\ (AbsentPlatform(client.asked) \/ AbsentModel(client.asked))) =>
        /\ ~client.ok
        /\ client.error.type = "MissingField"
        /\ client.error.field = "platform" => AbsentPlatform(client.asked)
        /\ client.error.field = "model" => AbsentModel(client.asked)
        /\ client.error.field \in {"platform", "model"}

\* a valid model overwritten with the empty string before build()
C14_Witness ==
    /\ client.set
    /\ client.asked.platform = [set |-> TRUE, value |-> Ollama]
    /\ client.asked.model = [set |-> TRUE, value |-> ""]
    /\ client.error = [type |-> "MissingField", field |-> "model"]

\* build() was asked for a platform that was registered and a model of that
\* platform's allowlist
Buildable(cl) ==
    /\ cl.asked.platform.set /\ cl.asked.model.set
    /\ getFactoryIn(cl.registry, cl.asked.platform.value).ok
    /\ cl.asked.model.value \in
           listAvailableModels(getFactoryIn(cl.registry, cl.asked.platform.value).value)

\* C15: when the last platform given to the builder is registered and the last
\* model given is in that platform's allowlist, build() succeeds and leaves the
\* service configured with exactly those two values, and a send on the
\* returned client resolves with the last model given as its model.
C15_BuildConfiguresLastValues ==
    /\ (client.set /\ Buildable(client)) =>
          /\ client.ok
          /\ getCurrentConfiguration = [set |-> TRUE,
                                        platform |-> client.asked.platform.value,
                                        model |-> client.asked.model.value]
          /\ strategy.set /\ strategy.model = client.asked.model.value
    /\ \A c \in CallIds :
          (calls[c].via.set /\ calls[c].pc = "resolved") =>
              calls[c].response.model = calls[c].via.client.asked.model.value

\* a platform and a model given twice each, the client built from the later ones
C15_Witness ==
    \E c \in CallIds :
        /\ calls[c].via.set /\ calls[c].pc = "resolved"
        /\ calls[c].via.client = client
        /\ client.asked.platform.value = AzureCapital
        /\ calls[c].response.model = "gpt-4o"
        /\ outcome.set /\ outcome.ok

\* the fields of ChatOptions
ChatOptionFields == {"temperature", "maxTokens", "systemPrompt", "streaming", "metadata"}

\* the options object o is there and has the field f
Carries(o, f) == o # Undefined /\ f \in DOMAIN o

\* C16: what ConfiguredClient.send and ConfiguredClient.stream hand to the
\* service has, for every ChatOptions field, the per-call value when the
\* per-call options carry the field, the default the client was built with
\* otherwise, and no such field when neither carries it; without per-call
\* options it is exactly the defaults.
C16_PerCallOptionsOverDefaults ==
    \A c \in CallIds :
        calls[c].via.set =>
            LET passed == calls[c].options
                given == calls[c].via.given
                defaults == calls[c].via.client.defaultOptions
            IN  /\ \A f \in ChatOptionFields :
                      IF Carries(given, f) THEN Carries(passed, f) /\ passed[f] = given[f]
                      ELSE IF Carries(defaults, f)
                           THEN Carries(passed, f) /\ passed[f] = defaults[f]
                      ELSE ~Carries(passed, f)
                /\ DOMAIN passed \subseteq ChatOptionFields
                /\ (given = Undefined /\ defaults # Undefined) => passed = defaults

\* a stream call whose options override one default and leave another
C16_Witness ==
    \E c \in CallIds :
        /\ calls[c].via.set /\ calls[c].op = "stream"
        /\ calls[c].via.client.defaultOptions = [temperature |-> "0.5", maxTokens |-> "64"]
        /\ calls[c].via.given = [temperature |-> "undefined", systemPrompt |-> "s"]
        /\ calls[c].options =
              [temperature |-> "undefined", maxTokens |-> "64", systemPrompt |-> "s"]

\* C17: getCurrentConfiguration answers none until a configure has succeeded,
\* and from then on the ProviderConfig given to the most recent configure that
\* succeeded; a failed configure, send, stream and the steps of pending calls
\* leave the answer as it was.
C17_CurrentConfigurationIsLastSuccessful ==
    /\ getCurrentConfiguration = lastOk
    /\ ~lastOk.set => getCurrentConfiguration = Undefined

\* a configure that failed after one that succeeded, with a call under way
C17_Witness ==
    /\ lastOk = [set |-> TRUE, platform |-> AzureCapital, model |-> "gpt-4o"]
    /\ getCurrentConfiguration = lastOk
    /\ outcome.set /\ ~outcome.ok
    /\ \E c \in CallIds : calls[c].pc = "awaiting"

\* the UnsupportedModel error names the platform x: the platform word of its
\* message is x, whatever the case of the letters
NamesPlatform(error, x) ==
    \E f \in FactoryKinds : LabelOf(f) = error.label /\ EqualIgnoringCase(LabelPlatform(f), x)

\* C18: a configure for a platform registered under the name x and a model
\* outside its factory's allowlist fails with an UnsupportedModel error that
\* names x and the rejected model.
C18_UnsupportedModelNamesRequest ==
    \A cfg \in NamingConfigs :
        LET made == resolveStrategy(cfg)
        IN  (~made.ok /\ made.error.type = "UnsupportedModel") =>
                /\ NamesPlatform(made.error, cfg.platform)
                /\ made.error.model = cfg.model

\* the names given to register since the last clear
NamesPassed == {regLog[i].platform : i \in 1..Len(regLog)}

\* C19 as stated: listPlatforms returns names as they were passed to register
\* since the last clear, one for each of them up to case, and nothing after clear.
C19_ListPlatformsAsPassed ==
    /\ listPlatforms \subseteq NamesPassed
    /\ \A n \in NamesPassed :
          Cardinality({k \in listPlatforms : EqualIgnoringCase(k, n)}) = 1

\* C19: listPlatforms returns the lower-cased forms of the names passed to
\* register since the last clear, one entry for each name up to case, and
\* nothing right after clear.
C19_ListPlatformsLowerCased ==
    /\ listPlatforms = {toLowerCase(n) : n \in NamesPassed}
    /\ \A n \in NamesPassed :
          Cardinality({k \in listPlatforms : EqualIgnoringCase(k, n)}) = 1
    /\ regLog = <<>> => listPlatforms = {}

\* names that differ in case only, and a name never passed in lower case
C19_Witness ==
    /\ {Azure, AzureCapital, OllamaUpper} \subseteq NamesPassed
    /\ listPlatforms = {Azure, Ollama}

\* the chunk sequences the adapter bound to call c can have produced for the
\* response the call holds
AdapterChunks(c) ==
    {streamMessage(calls[c].activeStrategy.adapter, raw) :
        raw \in {r \in BackendResponses(calls[c].activeStrategy.adapter,
                                        calls[c].activeStrategy.model,
                                        ServiceTexts \cup ParallelTexts,
                                        {MockUsage(calls[c].activeStrategy.adapter)}) :
                    sendMessage(calls[c].activeStrategy.adapter, r) = calls[c].response}}

\* C20: what the consumer of ChatService.stream has received is, chunk for
\* chunk (model, contentFragment, isLast) and in the same order, the beginning
\* of what the bound adapter's streamMessage produced, and all of it once the
\* stream is done.
C20_StreamForwardsAdapterChunks ==
    \A c \in CallIds :
        (calls[c].op = "stream" /\ calls[c].pc \in {"yielding", "done"}) =>
            \E produced \in AdapterChunks(c) :
                /\ Len(Received(c)) <= Len(produced)
                /\ \A i \in 1..Len(Received(c)) : Received(c)[i] = produced[i]
                /\ calls[c].pc = "done" => Received(c) = produced

C20_Witness ==
    \E c \in CallIds :
        /\ calls[c].op = "stream" /\ calls[c].pc = "done"
        /\ Len(Received(c)) = 2
        /\ Received(c)[1].contentFragment = <<".", " ">>
        /\ ~Received(c)[1].isLast /\ Received(c)[2].isLast

\* C21: a call has invoked the backend once when it awaits, has resolved or is
\* yielding, and not at all while a stream is unconsumed or when the call was
\* refused before the request; a call whose backend request failed is rejected
\* after that one invocation; and the chunks of every stream are derived from
\* the response of its own invocation.
C21_OneBackendCallPerCall ==
    \A c \in CallIds :
        /\ calls[c].pc \in {"awaiting", "resolved", "yielding", "done"} => calls[c].invoked = 1
        /\ calls[c].pc \in {"free", "created"} => calls[c].invoked = 0
        /\ calls[c].pc = "rejected" =>
              calls[c].invoked = (IF calls[c].raised.set THEN 1 ELSE 0)
        /\ calls[c].raised.set => calls[c].pc = "rejected"
        /\ (calls[c].op = "stream" /\ calls[c].pc \in {"yielding", "done"}) =>
              calls[c].chunks \in AdapterChunks(c)

\* two streams on the same adapter, each with the chunks of its own response
C21_Witness ==
    \E c, d \in CallIds :
        /\ c # d
        /\ calls[c].op = "stream" /\ calls[d].op = "stream"
        /\ calls[c].pc = "done" /\ calls[d].pc = "yielding"
        /\ calls[c].activeStrategy = calls[d].activeStrategy
        /\ calls[c].invoked = 1 /\ calls[d].invoked = 1
        /\ calls[c].response # calls[d].response
        /\ calls[c].chunks # calls[d].chunks

\* the backend request req of the adapter carries the option field f of options
InRequest(adapter, req, options, f) ==
    CASE adapter = "BedrockStrategy" ->
           /\ f \in {"temperature", "maxTokens"}
           /\ req[f] = options[f]
      [] adapter = "AzureOpenAIStrategy" ->
           \/ f \in {"temperature", "maxTokens"} /\ req[f] = options[f]
           \/ f = "systemPrompt" /\
                 \E i \in 1..Len(req.messages) :
                     req.messages[i] = [role |-> "system", content |-> options[f]]
      [] adapter = "GoogleVertexStrategy" ->
           /\ f = "metadata"
           /\ req.safetySettings = [set |-> TRUE, value |-> options[f]]
      [] adapter = "OllamaStrategy" ->
           \/ f = "temperature" /\ req.options.temperature = options[f]
           \/ f = "maxTokens" /\ req.options.num_predict = options[f]
           \/ f = "metadata" /\
                 \A k \in DOMAIN options[f] :
                     k \in DOMAIN req.options /\ req.options[k] = options[f][k]

\* the request names the adapter's bound model and the prompt
NamesModelAndPrompt(adapter, req, model, prompt) ==
    CASE adapter = "BedrockStrategy" -> req.modelId = model /\ req.prompt = prompt
      [] adapter = "AzureOpenAIStrategy" ->
           /\ req.deploymentId = model
           /\ req.messages[Len(req.messages)] = [role |-> "user", content |-> prompt]
      [] adapter = "GoogleVertexStrategy" -> req.model = model /\ req.input = prompt
      [] adapter = "OllamaStrategy" -> req.model = model /\ req.prompt = prompt

\* C22: the backend request of every adapter carries the bound model and the
\* prompt, and each of temperature, maxTokens, systemPrompt and metadata that
\* the options hold is carried by a field of the request.
C22_RequestCarriesEveryOption ==
    (probeOut.set /\ probeOut.op = "request") =>
        /\ NamesModelAndPrompt(probe.adapter, probeOut.request, probe.model, probe.prompt)
        /\ \A f \in DOMAIN probe.options :
              InRequest(probe.adapter, probeOut.request, probe.options, f)

\* the withDefaultOptions calls so far that supplied the field f
Supplying(f) == {i \in 1..Len(withArgs.options) : f \in DOMAIN withArgs.options[i]}

\* C23: the builder's stored defaults hold, for every ChatOptions field, the
\* value of the last withDefaultOptions call that supplied the field, whole
\* (a metadata map is the later call's map and nothing of an earlier one), and
\* lack every field that no call supplied.
C23_DefaultsHoldLastSupplied ==
    \A f \in ChatOptionFields :
        IF Supplying(f) = {}
        THEN ~Carries(builder.defaultOptions, f)
        ELSE /\ Carries(builder.defaultOptions, f)
             /\ builder.defaultOptions[f] = withArgs.options[Latest(Supplying(f))][f]

\* metadata given twice with different keys, and a field given once before both
C23_Witness ==
    /\ withArgs.options =
          <<[temperature |-> "0.5"], [metadata |-> [a |-> "1"]],
            [metadata |-> [b |-> "2"], systemPrompt |-> "s"]>>
    /\ builder.defaultOptions =
          [temperature |-> "0.5", metadata |-> [b |-> "2"], systemPrompt |-> "s"]

(***************************************************************************)
(* demo.ts                                                                 *)
(***************************************************************************)
\* the four configure calls of runDemo, in order
DemoConfigs ==
    << [platform |-> Bedrock, model |-> "anthropic.claude-v2"],
       [platform |-> Azure, model |-> "gpt-35-turbo"],
       [platform |-> Google, model |-> "gemini-pro"],
       [platform |-> Ollama, model |-> "llama3.2"] >>

InitDemo ==
    /\ factories = EmptyMap
    /\ strategy = Undefined
    /\ config = Undefined
    /\ calls = [c \in CallIds |-> NoCall]
    /\ regLog = <<>>
    /\ lastOk = Undefined
    /\ outcome = Undefined
    /\ overtaken = [c \in CallIds |-> "no"]
    /\ builder = NewBuilder
    /\ withArgs = NoArgs
    /\ client = Undefined
    /\ held = Undefined
    /\ demo = [NoDemo EXCEPT !.pc = "register"]
    /\ probe = NoProbe
    /\ probeOut = NoProbe

\* runDemo, one statement at a time; an exception leaves the function (the
\* .catch of line 70 reports it) and the statements after it are not run
demoStep ==
    CASE demo.pc = "register" ->
           /\ factories' = registerIn(registerIn(registerIn(registerIn(factories,
                               Bedrock, "BedrockFactory"),
                               Azure, "AzureFactory"),
                               Google, "GoogleFactory"),
                               Ollama, "OllamaFactory")
           /\ regLog' = regLog \o << [platform |-> Bedrock, factory |-> "BedrockFactory"],
                                     [platform |-> Azure, factory |-> "AzureFactory"],
                                     [platform |-> Google, factory |-> "GoogleFactory"],
                                     [platform |-> Ollama, factory |-> "OllamaFactory"] >>
           /\ demo' = [demo EXCEPT !.pc = "configure", !.i = 1]
           /\ UNCHANGED <<strategy, config, calls, lastOk, outcome, overtaken, probe, probeOut,
                          builder, withArgs, client, held>>
      [] demo.pc = "configure" ->
           LET made == resolveStrategy(DemoConfigs[demo.i])
           IN  /\ serviceConfigure(DemoConfigs[demo.i])
               /\ demo' = IF made.ok THEN [demo EXCEPT !.pc = "send"]
                          ELSE [demo EXCEPT !.pc = "failed", !.error = made.error]
               /\ UNCHANGED <<factories, calls, regLog, probe, probeOut, builder, withArgs, client, held>>
      [] demo.pc = "send" ->
           /\ serviceSend(1, Undefined, Undefined)
           /\ demo' = [demo EXCEPT !.pc = "await"]
           /\ UNCHANGED <<factories, strategy, config, regLog, lastOk, outcome, overtaken,
                          probe, probeOut, builder, withArgs, client, held>>
      [] demo.pc = "await" ->
           /\ calls[1].pc \in {"resolved", "rejected"}
           /\ calls' = [calls EXCEPT ![1] = NoCall]
           /\ overtaken' = [overtaken EXCEPT ![1] = "no"]
           /\ demo' = IF calls[1].pc = "rejected"
                      THEN [demo EXCEPT !.pc = "failed", !.error = calls[1].error]
                      ELSE IF demo.i < Len(DemoConfigs)
                           THEN [demo EXCEPT !.pc = "configure", !.i = @ + 1]
                           ELSE [demo EXCEPT !.pc = "stream"]
           /\ UNCHANGED <<factories, strategy, config, regLog, lastOk, outcome, probe, probeOut,
                          builder, withArgs, client, held>>
      [] demo.pc = "stream" ->
           /\ serviceStream(1, Undefined, Undefined)
           /\ demo' = [demo EXCEPT !.pc = "iterate"]
           /\ UNCHANGED <<factories, strategy, config, regLog, lastOk, outcome, overtaken,
                          probe, probeOut, builder, withArgs, client, held>>
      [] demo.pc = "iterate" ->
           /\ calls[1].pc \in {"created", "yielding", "done", "rejected"}
           /\ IF calls[1].pc \in {"created", "yielding"}
              THEN generatorNext(1) /\ UNCHANGED <<overtaken, demo, held>>
              ELSE /\ calls' = [calls EXCEPT ![1] = NoCall]
                   /\ overtaken' = [overtaken EXCEPT ![1] = "no"]
                   /\ demo' = IF calls[1].pc = "rejected"
                              THEN [demo EXCEPT !.pc = "failed", !.error = calls[1].error]
                              ELSE [demo EXCEPT !.pc = "report"]
           /\ UNCHANGED <<factories, strategy, config, regLog, lastOk, outcome, probe, probeOut,
                          builder, withArgs, client, held>>
      [] demo.pc = "report" ->
           /\ demo' = [demo EXCEPT !.pc = "done", !.reported = getCurrentConfiguration]
           /\ UNCHANGED <<factories, strategy, config, calls, regLog, lastOk, outcome, overtaken,
                          probe, probeOut, builder, withArgs, client, held>>
      [] OTHER -> FALSE

\* runDemo against backends that answer every request
NextDemo ==
    \/ demoStep
    \/ Respond(Texts \ {<<>>})

SpecDemo == InitDemo /\ [][NextDemo]_vars

\* C24: runDemo never leaves through an exception (each of its four configure
\* calls is accepted), and when it ends getCurrentConfiguration has reported
\* the ollama configuration.
C24_DemoRunsToCompletion ==
    /\ demo.pc # "failed"
    /\ demo.pc = "done" =>
          demo.reported = [set |-> TRUE, platform |-> Ollama, model |-> "llama3.2"]

\* C25: a stream that has handed out its first chunk and whose adapter has
\* since been replaced by a configure still runs on the adapter it started with:
\* its chunks are what that adapter's streamMessage makes of the one response
\* the call received, every chunk carries that adapter's model, only the last
\* chunk has isLast, and the consumer is somewhere inside that sequence, at its
\* end when the stream is done.
C25_ConfigureLeavesRunningStream ==
    \A c \in CallIds :
        (/\ calls[c].op = "stream"
         /\ calls[c].pc \in {"yielding", "done"}
         /\ calls[c].taken >= 1
         /\ strategy # calls[c].activeStrategy) =>
            /\ calls[c].chunks \in AdapterChunks(c)
            /\ \A i \in 1..Len(calls[c].chunks) :
                  /\ calls[c].chunks[i].model = calls[c].activeStrategy.model
                  /\ calls[c].chunks[i].isLast <=> (i = Len(calls[c].chunks))
            /\ calls[c].taken <= Len(calls[c].chunks)
            /\ calls[c].pc = "done" => calls[c].taken = Len(calls[c].chunks)

\* a configure to another adapter succeeded between the first and the last
\* chunk of a stream that has since been read to its end
C25_Witness ==
    \E c \in CallIds :
        /\ calls[c].op = "stream" /\ calls[c].pc = "done"
        /\ overtaken[c] = "yielding"
        /\ strategy # calls[c].activeStrategy
        /\ strategy.model # calls[c].activeStrategy.model
        /\ Len(calls[c].chunks) >= 2
        /\ calls[c].taken = Len(calls[c].chunks)

\* the adapter a client's own build() configured
BuiltWith(cl) ==
    createClient(getFactoryIn(cl.registry, cl.asked.platform.value).value,
                 cl.asked.model.value).value

\* C26: whenever a call made through a ConfiguredClient reaches the backend, it
\* does so on the adapter the builder's one ChatService holds at that moment,
\* which is the adapter of the latest successful build() on the builder, even
\* when the client was returned by an earlier build() with another platform
\* or model.
C26_ClientsShareTheService ==
    [][\A c \in CallIds :
          (calls[c].pc # "awaiting" /\ calls'[c].pc = "awaiting" /\ calls'[c].via.set) =>
              /\ calls'[c].activeStrategy = strategy
              /\ client.set
              /\ strategy.model = lastOk.model
              /\ strategy = createClient(getFactory(lastOk.platform).value, lastOk.model).value
              /\ (client.ok => strategy = BuiltWith(client))]_vars

\* a send and a stream through a client built for one platform, answered by the
\* adapter of a later build for another
C26_Witness ==
    \E c \in CallIds :
        /\ calls[c].via.set
        /\ calls[c].pc \in {"resolved", "done"}
        /\ client.set /\ client.ok /\ calls[c].via.client # client
        /\ BuiltWith(calls[c].via.client).adapter # calls[c].activeStrategy.adapter
        /\ calls[c].activeStrategy = BuiltWith(client)
        /\ calls[c].response.model = client.asked.model.value
        /\ calls[c].response.model # calls[c].via.client.asked.model.value

\* C27: a step that changes the registry (register, clear) leaves the service's
\* adapter, its config and every call as they were; a call that reaches the
\* backend does so on the adapter the service holds, whatever the registry
\* says by then; and the adapter changes only to what the registry, as it is at
\* that configure, resolves for the new config.
C27_RegistryChangeLeavesService ==
    [][/\ factories' # factories =>
             strategy' = strategy /\ config' = config /\ calls' = calls
       /\ \A c \in CallIds :
             (calls[c].pc # "awaiting" /\ calls'[c].pc = "awaiting") =>
                 calls'[c].activeStrategy = strategy
       /\ strategy' # strategy =>
             /\ getFactory(config'.platform).ok
             /\ strategy' = createClient(getFactory(config'.platform).value,
                                         config'.model).value]_vars

\* a call answered by the configured azure adapter while the platform name is
\* no longer registered, or belongs to the other factory
C27_Witness ==
    \E c \in CallIds :
        /\ calls[c].pc = "resolved"
        /\ strategy.set /\ calls[c].activeStrategy = strategy
        /\ calls[c].issuedCfg = config
        /\ calls[c].response.model = config.model
        /\ \/ ~getFactory(config.platform).ok
           \/ AdapterOf(getFactory(config.platform).value) # strategy.adapter

\* C28: after every step the service has an adapter exactly when it has a
\* config, and the adapter is bound to config.model; and whenever a step gives
\* the service a new config or adapter, the registry of that moment holds a
\* factory under the lower-cased config.platform, config.model is in that
\* factory's allowlist and the adapter is that factory's.
C28_AdapterMatchesConfig ==
    [][/\ strategy'.set <=> config'.set
       /\ config'.set => strategy'.model = config'.model
       /\ (config' # config \/ strategy' # strategy) =>
             /\ toLowerCase(config'.platform) \in DOMAIN factories
             /\ config'.model \in SUPPORTED_MODELS(factories[toLowerCase(config'.platform)])
             /\ strategy'.adapter = AdapterOf(factories[toLowerCase(config'.platform)])]_vars

\* the service configured as 'Azure' with an ollama model, from a registry that
\* held the OllamaFactory under 'azure' and has been rewired since
C28_Witness ==
    /\ config = [set |-> TRUE, platform |-> AzureCapital, model |-> "llama3"]
    /\ strategy = [set |-> TRUE, adapter |-> "OllamaStrategy", model |-> "llama3"]
    /\ outcome.set /\ ~outcome.ok
    /\ factories[Azure] = "AzureFactory"

\* what the adapter bound to call c makes of the answer to c's own prompt
OwnAnswer(c) ==
    MockClient(calls[c].activeStrategy.adapter,
               buildRequest(calls[c].activeStrategy.adapter, calls[c].activeStrategy.model,
                            PromptOf(c), OptionsOf(c)))

\* C29: with any number of sends and streams in flight and their backends
\* answering in any order, the response of every send and the chunks of every
\* stream are what the call's own adapter makes of the answer to the call's
\* own prompt and options, from the answer's arrival on, and no step changes
\* two calls at once.
C29_CallsAreIndependent ==
    [][\A c \in CallIds :
          calls'[c] # calls[c] =>
              /\ \A d \in CallIds \ {c} : calls'[d] = calls[d]
              /\ calls[c].pc \in {"yielding", "resolved", "done"} =>
                    calls'[c].chunks = calls[c].chunks /\ calls'[c].response = calls[c].response
              /\ (calls[c].pc = "awaiting" /\ calls[c].op = "send") =>
                    /\ calls'[c].pc = "resolved"
                    /\ calls'[c].response =
                           sendMessage(calls[c].activeStrategy.adapter, OwnAnswer(c))
              /\ (calls[c].pc = "awaiting" /\ calls[c].op = "stream") =>
                    /\ calls'[c].pc = "yielding"
                    /\ calls'[c].chunks =
                           streamMessage(calls[c].activeStrategy.adapter, OwnAnswer(c))]_vars

\* a stream and a later send on different adapters, both in the host's hands,
\* each with the answer to its own prompt
C29_Witness ==
    \E c, d \in CallIds :
        /\ c < d
        /\ calls[c].op = "stream" /\ calls[c].pc = "done"
        /\ calls[d].op = "send" /\ calls[d].pc = "resolved"
        /\ calls[c].activeStrategy.adapter = "AzureOpenAIStrategy"
        /\ calls[d].activeStrategy.adapter = "GoogleVertexStrategy"
        /\ calls[d].response.content = MockPrefix("GoogleVertexStrategy") \o PromptOf(d)
        /\ Len(calls[c].chunks) = 5
        /\ calls[c].chunks[5].contentFragment = PromptOf(c)
        /\ calls[c].response.model = "gpt-4o" /\ calls[d].response.model = "gemini-pro"

\* the builder's fields pass both checks of build() and configure accepts them
WouldBuild ==
    /\ missingField(builder.config) = "none"
    /\ resolveStrategy([platform |-> builder.config.platform,
                        model |-> builder.config.model]).ok

\* C30: a build() that fails leaves the service's adapter and config and the
\* builder's platform, model and default options as they were; when it fails
\* with MissingField no configure has been attempted; and whether a build()
\* succeeds depends on the builder's fields and the registry at that call alone,
\* so a build() after a failed one succeeds once the fields are corrected.
C30_FailedBuildChangesNothing ==
    [][(client' # client) =>
          /\ client'.ok <=> WouldBuild
          /\ ~client'.ok =>
                /\ strategy' = strategy /\ config' = config
                /\ builder' = builder
                /\ client'.error.type = "MissingField" => outcome' = outcome
          /\ client'.ok =>
                /\ builder' = builder
                /\ config' = [set |-> TRUE, platform |-> builder.config.platform,
                              model |-> builder.config.model]]_vars

\* a build() refused by configure on a service that an earlier build() had
\* configured: the service is still on ollama, the builder still holds the
\* platform nobody registered, its model and its default options
C30_Witness ==
    /\ client.set /\ ~client.ok
    /\ client.error.type = "NotRegistered"
    /\ strategy = [set |-> TRUE, adapter |-> "OllamaStrategy", model |-> "llama3"]
    /\ config = [set |-> TRUE, platform |-> Ollama, model |-> "llama3"]
    /\ builder.config = [set |-> TRUE, platform |-> Unknown, model |-> "llama3"]
    /\ builder.defaultOptions = [temperature |-> "0.5", maxTokens |-> "64"]

====
